---- MODULE Spec2Model ----
(***************************************************************************)
(* Model of the demo backend: the session store, the command log, the      *)
(* session lifecycle service, the command dispatcher, the transcript       *)
(* assembler and the ask-ai endpoint (src/backend/models.py, services.py,  *)
(* views.py).                                                              *)
(*                                                                         *)
(* Every handler is a sequence of steps, one per access to the store or    *)
(* to the external AI boundary; a request worker walks the steps of one    *)
(* handler in program order.  Spec runs one worker (requests one after     *)
(* another); SpecConc runs several workers whose steps interleave.         *)
(*                                                                         *)
(* Text is a sequence of one-character strings, so strip(), lower(),       *)
(* startswith() and the `in` substring test are computed, not assumed.     *)
(* A response text is a sequence of text pieces (its concatenation is the  *)
(* text); it is empty iff the sequence is empty.                           *)
(***************************************************************************)
EXTENDS Integers, Sequences, FiniteSets, TLC

\* ------------------------------------------------------------------ bounds
MaxSessions == 2
MaxLogs == 1
MaxClock == 1
MaxFrags == 2

\* --------------------------------------------------------------- text ops
Whitespace == {" ", "\t"}

Min(S) == CHOOSE x \in S : \A y \in S : x <= y
Max(S) == CHOOSE x \in S : \A y \in S : x >= y

\* str.strip(): drop leading and trailing whitespace
Strip(s) ==
  LET idx == {i \in 1..Len(s) : s[i] \notin Whitespace}
      first == CHOOSE i \in idx : \A j \in 1..(i - 1) : s[j] \in Whitespace
      last == CHOOSE i \in idx :
                \A j \in (i + 1)..Len(s) : s[j] \in Whitespace
  IN  IF idx = {} THEN <<>> ELSE SubSeq(s, first, last)

LowerChar(c) ==
  CASE c = "A" -> "a"
    [] c = "E" -> "e"
    [] c = "H" -> "h"
    [] c = "I" -> "i"
    [] c = "L" -> "l"
    [] c = "M" -> "m"
    [] c = "O" -> "o"
    [] c = "P" -> "p"
    [] c = "T" -> "t"
    [] OTHER -> c

\* str.lower(), as a sequence
Lower(s) ==
  IF s = <<>> THEN <<>>
  ELSE SubSeq([i \in 1..Len(s) |-> LowerChar(s[i])], 1, Len(s))

\* str.startswith(pre)
StartsWith(s, pre) == Len(s) >= Len(pre) /\ SubSeq(s, 1, Len(pre)) = pre

\* sub in s
Contains(s, sub) ==
  \E i \in 1..(Len(s) - Len(sub) + 1) : SubSeq(s, i, i + Len(sub) - 1) = sub

\* s[n:]
DropFirst(s, n) == IF Len(s) <= n THEN <<>> ELSE SubSeq(s, n + 1, Len(s))

AiPrefix == <<"a", "i", ":">>
WordHello == <<"h", "e", "l", "l", "o">>
WordTime == <<"t", "i", "m", "e">>
WordHelp == <<"h", "e", "l", "p">>
\* a logging prefix that reads as an AI command
AnalysisPrefix_AiColon == <<"A", "I", ":", " ">>

\* the literal "AI Analysis: " of the ask-ai logging command
AnalysisPrefix ==
  <<"A", "I", " ", "A", "n", "a", "l", "y", "s", "i", "s", ":", " ">>

\* ---------------------------------------------------------- response texts
MsgGreeting == <<"Hello! How can I assist you today?">>
MsgHelp == <<"I can help you with basic commands. Try saying 'hello', 'time', or prefix with 'ai:' for AI responses.">>
MsgUnknown == <<"I'm not sure how to respond to that yet. Try saying 'help' for available commands.">>
MsgNotConfigured == <<"AI service not configured">>

\* timezone.now().strftime('%H:%M:%S')
TimeStr(t) ==
  CASE t = 0 -> "00:00:00"
    [] t = 1 -> "00:00:01"
    [] t = 2 -> "00:00:02"
    [] t = 3 -> "00:00:03"
    [] OTHER -> "00:00:04"

MsgTime(t) == <<"The current time is ", TimeStr(t)>>
\* f"AI service error: {str(e)}"
MsgAiError(e) == <<"AI service error: ", e>>

\* ------------------------------------------------------------------ inputs
Null == -1            \* a NULL column / Python None for a timestamp
MalformedId == 0      \* a session id string that is not a UUID
NoId == -2            \* the empty session id "" of an ask-ai request
SessionIds == 1..MaxSessions   \* well-formed UUID strings
Workers == {1, 2}     \* request workers of SpecConc

\* command texts of the store specifications
Commands ==
  { <<>>,
    <<" ", "\t">>,
    <<" ", "H", "e", "l", "l", "o", " ">>,
    <<"a", "i", ":", " ", "h", "i">>,
    <<" ", "A", "I", ":", "x">> }

\* exceptions the AI boundary raises, by class name (str(e) is its message)
AiErrors ==
  {"RateLimitError", "InvalidRequestError", "AuthenticationError",
   "APIError", "APIConnectionError", "AttributeError"}

\* message.content of a successful completion
AiReplies == { <<" ", "o", "k", " ">>, <<" ">> }

\* ------------------------------------------------------------------- state
VARIABLES
  now,            \* the wall clock (timezone.now(), time.time())
  sessions,       \* DemoSession table: session_id -> row
  logs,           \* CommandLog table, in insertion (id) order
  req             \* per worker: the request it serves and its position

vars == <<now, sessions, logs, req>>

NoRet == [status |-> 0, error |-> "", response |-> <<>>]

IdleReq ==
  [ pc |-> "idle", op |-> "none",
    session_id |-> NoId, command |-> <<>>, start_time |-> 0,
    session |-> <<>>,        \* the DemoSession object read: <<>> is None
    response |-> <<>>, is_ai |-> FALSE,
    responder |-> "none",    \* which responder process_command invoked
    ai_calls |-> <<>>,       \* prompts sent to the AI boundary
    ai_outcome |-> "none",   \* how _handle_ai_command's AI call went
    ended |-> "none",        \* return value of SessionService.end_session
    store_error |-> FALSE,   \* the store rejected a write of this request
    total_commands |-> 0,    \* transcript_data["total_commands"]
    commands |-> <<>>,       \* transcript_data["commands"]
    user_input |-> <<>>,     \* ask-ai: request.data["user_input"]
    screen_text |-> <<>>,    \* ask-ai: request.data["screen_text"]
    limited_screen_text |-> <<>>,   \* ask-ai: the text put in the prompt
    prompt |-> <<>>,         \* ask-ai: <<screen part, question>> of prompt
    screen_context_length |-> -1,   \* ask-ai: response field, -1 if absent
    ai_failure |-> "none",   \* ask-ai: "not_configured" or exception class
    raw_command |-> <<>>,    \* send-command: request.data["command"]
    details |-> {},          \* send-command: fields of serializer.errors
    ai_response |-> <<>>,    \* ask-ai: the stripped completion
    svc |-> NoRet,           \* return value of the service call
    http |-> NoRet ]         \* response of the endpoint

Free(p) == req[p].pc \in {"idle", "done"}

\* DemoSession: defaults of the model fields
NewSession(t) == [started_at |-> t, ended_at |-> Null, is_active |-> TRUE]

\* SessionService.get_session: <<>> for None, <<object>> when found
get_session(id) ==
  IF id \in DOMAIN sessions
  THEN << [session_id |-> id,
           started_at |-> sessions[id].started_at,
           ended_at |-> sessions[id].ended_at,
           is_active |-> sessions[id].is_active] >>
  ELSE <<>>

\* DemoSession.objects.get raises ValidationError for a non-UUID string
LookupRaises(id) == id = MalformedId

Init ==
  /\ now = 0
  /\ sessions = << >>
  /\ logs = << >>
  /\ req = [p \in Workers |-> IdleReq]

\* the clock advances
Tick ==
  /\ now < MaxClock
  /\ now' = now + 1
  /\ UNCHANGED <<sessions, logs, req>>

\* an identifier generator that may repeat an identifier of the store
FreshIds_AnyId == SessionIds

\* uuid.uuid4: an identifier no row has.  Identifiers are only compared for
\* equality, so the least unused one stands for any fresh one.
FreshIds ==
  LET unused == SessionIds \ DOMAIN sessions
  IN  IF unused = {} THEN {} ELSE {Min(unused)}

\* StartSessionView.post / SessionService.create_session
CreateSession(p) ==
  /\ Free(p)
  /\ \E id \in FreshIds :
       /\ sessions' = (id :> NewSession(now)) @@ sessions
       /\ req' = [req EXCEPT ![p] =
            [IdleReq EXCEPT !.pc = "done", !.op = "create_session",
                            !.session_id = id,
                            !.session = << [session_id |-> id,
                                            started_at |-> now,
                                            ended_at |-> Null,
                                            is_active |-> TRUE] >>,
                            !.http = [NoRet EXCEPT !.status = 201]]]
  /\ UNCHANGED <<now, logs>>

\* ------------------------------------------------------------ end session
\* EndSessionView.post is called with a session id the URL converter parsed
BeginEndSession(p) ==
  /\ Free(p)
  /\ \E id \in SessionIds :
       req' = [req EXCEPT ![p] =
         [IdleReq EXCEPT !.pc = "es_lookup", !.op = "end_session",
                         !.session_id = id]]
  /\ UNCHANGED <<now, sessions, logs>>

\* SessionService.end_session: session = SessionService.get_session(id)
EndSessionLookup(p) ==
  /\ req[p].pc = "es_lookup"
  /\ req' = [req EXCEPT ![p].session = get_session(req[p].session_id),
                        ![p].pc = "es_write"]
  /\ UNCHANGED <<now, sessions, logs>>

\* end_session that clears the flag and leaves ended_at as it was
end_session_FlagOnly(obj, t) == [obj EXCEPT !.is_active = FALSE]

\* DemoSession.end_session on the object read: set both fields, save()
end_session(obj, t) == [obj EXCEPT !.ended_at = t, !.is_active = FALSE]

\* the row save() writes: every column of the object
SavedRow(obj) ==
  [started_at |-> obj.started_at, ended_at |-> obj.ended_at,
   is_active |-> obj.is_active]

\* the test of line 38 without its is_active half
ShouldEnd_AnySession(session) == session # <<>>

\* SessionService.end_session, line 38: if session and session.is_active
ShouldEnd(session) == session # <<>> /\ session[1].is_active

\* status of EndSessionView.post for the service's return value
EndSessionStatus(success) == IF success THEN 200 ELSE 404

\* SessionService.end_session: the test of the object read, the save, the
\* return; then EndSessionView.post maps the return value
EndSessionWrite(p) ==
  /\ req[p].pc = "es_write"
  /\ LET session == req[p].session
         success == ShouldEnd(session)
     IN  /\ IF success
            THEN LET obj == end_session(session[1], now)
                 IN  /\ sessions' = [sessions EXCEPT
                                       ![obj.session_id] = SavedRow(obj)]
                     /\ req' = [req EXCEPT ![p].session = <<obj>>,
                                  ![p].ended = "True",
                                  ![p].http = [NoRet EXCEPT
                                     !.status = EndSessionStatus(TRUE)],
                                  ![p].pc = "done"]
            ELSE /\ sessions' = sessions
                 /\ req' = [req EXCEPT ![p].ended = "False",
                              ![p].http = [NoRet EXCEPT
                                 !.status = EndSessionStatus(FALSE),
                                 !.error = "Session not found or already ended"],
                              ![p].pc = "done"]
  /\ UNCHANGED <<now, logs>>

\* -------------------------------------------------------- process command
\* a test that finds the prefix anywhere in the command
IsAiCommand_Anywhere(command) == Contains(Lower(command), AiPrefix)

\* CommandService.process_command, lines 66-69: the test that routes a
\* command to the AI responder
IsAiCommand(command) == StartsWith(Lower(command), AiPrefix)

\* CommandService._handle_ai_command, line 102: command[3:].strip()
AiPrompt(command) == Strip(DropFirst(command, 3))

\* the rule table with the 'help' rule ahead of the 'time' rule
handle_dummy_command_HelpFirst(command, t) ==
  LET command_lower == Lower(command)
  IN  IF Contains(command_lower, WordHello) THEN <<MsgGreeting, FALSE>>
      ELSE IF Contains(command_lower, WordHelp) THEN <<MsgHelp, FALSE>>
      ELSE IF Contains(command_lower, WordTime) THEN <<MsgTime(t), FALSE>>
      ELSE <<MsgUnknown, FALSE>>

\* CommandService._handle_dummy_command: (response, is_ai)
handle_dummy_command(command, t) ==
  LET command_lower == Lower(command)
  IN  IF Contains(command_lower, WordHello) THEN <<MsgGreeting, FALSE>>
      ELSE IF Contains(command_lower, WordTime) THEN <<MsgTime(t), FALSE>>
      ELSE IF Contains(command_lower, WordHelp) THEN <<MsgHelp, FALSE>>
      ELSE <<MsgUnknown, FALSE>>

\* the test of line 62 without command.strip()
CommandIsEmpty_NoStrip(command) == command = <<>>

\* CommandService.process_command, line 62
CommandIsEmpty(command) == command = <<>> \/ Strip(command) = <<>>

\* the return of process_command goes to its caller: a direct call is
\* finished, the ask-ai endpoint continues after its logging call
AfterProcess(p) ==
  CASE req[p].op = "ask_ai" -> "aa_return"
    [] req[p].op = "send_command" -> "sc_return"
    [] OTHER -> "done"

ErrorRet(status, error) == [NoRet EXCEPT !.status = status, !.error = error]

\* a direct call of CommandService.process_command (the send-command
\* endpoint and the service tests): a UUID string and any command text
BeginProcessCommand(p, cmds) ==
  /\ Free(p)
  /\ \E id \in SessionIds, c \in cmds :
       req' = [req EXCEPT ![p] =
         [IdleReq EXCEPT !.pc = "pc_lookup", !.op = "process_command",
                         !.session_id = id, !.command = c,
                         !.start_time = now]]
  /\ UNCHANGED <<now, sessions, logs>>

\* the checks of lines 52-63 without the is_active check of line 58
Validate_NoActiveCheck(session, command) ==
  IF session = <<>> THEN ErrorRet(404, "Session not found")
  ELSE IF CommandIsEmpty(command) THEN ErrorRet(400, "Command cannot be empty")
  ELSE NoRet

\* process_command lines 52-63 after the lookup: the error it returns for
\* the object read and the command, NoRet when all three checks pass
Validate(session, command) ==
  IF session = <<>> THEN ErrorRet(404, "Session not found")
  ELSE IF ~session[1].is_active THEN ErrorRet(400, "Session has ended")
  ELSE IF CommandIsEmpty(command) THEN ErrorRet(400, "Command cannot be empty")
  ELSE NoRet

\* process_command lines 52-63: the session lookup and the three checks; an
\* exception of the lookup reaches the except clause of lines 86-88
ProcessLookup(p) ==
  /\ req[p].pc = "pc_lookup"
  /\ LET id == req[p].session_id
         session == get_session(id)
         error == Validate(session, req[p].command)
     IN  req' =
           IF LookupRaises(id)
           THEN [req EXCEPT ![p].svc = ErrorRet(500, "Internal server error"),
                            ![p].pc = AfterProcess(p)]
           ELSE IF error # NoRet
           THEN [req EXCEPT ![p].session = session,
                            ![p].svc = error,
                            ![p].pc = AfterProcess(p)]
           ELSE [req EXCEPT ![p].session = session,
                            ![p].pc = "pc_respond"]
  /\ UNCHANGED <<now, sessions, logs>>

\* _handle_ai_command whose except clause marks its message as an AI reply
handle_ai_command_FailureFlagged(command, errs) ==
  { [response |-> MsgNotConfigured, is_ai |-> FALSE, sent |-> <<>>,
     outcome |-> "not_configured"] }
  \cup { [response |-> MsgAiError(e), is_ai |-> TRUE,
          sent |-> <<AiPrompt(command)>>, outcome |-> "error"] : e \in errs }
  \cup { [response |-> Strip(content), is_ai |-> TRUE,
          sent |-> <<AiPrompt(command)>>, outcome |-> "reply"] :
         content \in AiReplies }

\* CommandService._handle_ai_command: the (response, is_ai) pairs it can
\* return for a command, with the prompts it sent to the AI boundary and
\* the outcome of the call: the key is not set (line 98), the call or the
\* handling of its result raises (line 113), or a reply arrives (line 111)
handle_ai_command(command, errs) ==
  { [response |-> MsgNotConfigured, is_ai |-> FALSE, sent |-> <<>>,
     outcome |-> "not_configured"] }
  \cup { [response |-> MsgAiError(e), is_ai |-> FALSE,
          sent |-> <<AiPrompt(command)>>, outcome |-> "error"] : e \in errs }
  \cup { [response |-> Strip(content), is_ai |-> TRUE,
          sent |-> <<AiPrompt(command)>>, outcome |-> "reply"] :
         content \in AiReplies }

\* process_command lines 66-69 and the responders
ProcessRespond(p, errs) ==
  /\ req[p].pc = "pc_respond"
  /\ LET command == req[p].command IN
     IF IsAiCommand(command)
     THEN \E r \in handle_ai_command(command, errs) :
            req' = [req EXCEPT ![p].responder = "ai",
                      ![p].ai_calls = @ \o r.sent,
                      ![p].ai_outcome = r.outcome,
                      ![p].response = r.response,
                      ![p].is_ai = r.is_ai, ![p].pc = "pc_log"]
     ELSE LET r == handle_dummy_command(command, now)
          IN  req' = [req EXCEPT ![p].responder = "dummy",
                        ![p].response = r[1], ![p].is_ai = r[2],
                        ![p].pc = "pc_log"]
  /\ UNCHANGED <<now, sessions, logs>>

\* the row with the command as received, not stripped
NewLog_RawCommand(p, t) ==
  [ session |-> req[p].session[1].session_id,
    timestamp |-> t,
    command_text |-> req[p].command,
    response |-> req[p].response,
    is_ai_response |-> req[p].is_ai,
    processing_time_ms |-> t - req[p].start_time ]

\* the CommandLog row process_command creates (lines 75-81)
NewLog(p, t) ==
  [ session |-> req[p].session[1].session_id,
    timestamp |-> t,
    command_text |-> Strip(req[p].command),
    response |-> req[p].response,
    is_ai_response |-> req[p].is_ai,
    processing_time_ms |-> t - req[p].start_time ]

\* a write that replaces the entries the session already has
objects_create_Upsert(table, row) ==
  IF \E i \in 1..Len(table) : table[i].session = row.session
  THEN [i \in 1..Len(table) |->
          IF table[i].session = row.session THEN row ELSE table[i]]
  ELSE Append(table, row)

\* CommandLog.objects.create (line 75): one row is inserted
objects_create(table, row) == Append(table, row)

\* process_command lines 72-88: the log write and the return; the store may
\* reject the write, which the except clause turns into status 500
ProcessLog(p, cap) ==
  /\ req[p].pc = "pc_log"
  /\ \/ /\ Len(logs) < cap
        /\ logs' = objects_create(logs, NewLog(p, now))
        /\ req' = [req EXCEPT ![p].svc = [NoRet EXCEPT !.status = 200,
                                            !.response = req[p].response],
                              ![p].pc = AfterProcess(p)]
     \/ /\ logs' = logs
        /\ req' = [req EXCEPT ![p].svc = ErrorRet(500, "Internal server error"),
                              ![p].store_error = TRUE,
                              ![p].pc = AfterProcess(p)]
  /\ UNCHANGED <<now, sessions>>

\* -------------------------------------------------------------- transcript
\* TranscriptView.get is called with a session id the URL converter parsed
BeginGetTranscript(p) ==
  /\ Free(p)
  /\ \E id \in SessionIds :
       req' = [req EXCEPT ![p] =
         [IdleReq EXCEPT !.pc = "gt_lookup", !.op = "get_transcript",
                         !.session_id = id]]
  /\ UNCHANGED <<now, sessions, logs>>

\* get_session_transcript lines 139-143
TranscriptLookup(p) ==
  /\ req[p].pc = "gt_lookup"
  /\ LET session == get_session(req[p].session_id)
     IN  req' =
           IF session = <<>>
           THEN [req EXCEPT ![p].svc = ErrorRet(404, "Session not found"),
                            ![p].http = ErrorRet(404, "Session not found"),
                            ![p].pc = "done"]
           ELSE [req EXCEPT ![p].session = session, ![p].pc = "gt_count"]
  /\ UNCHANGED <<now, sessions, logs>>

\* the rows of session.commands: indices into the CommandLog table
CommandsOf(id) == {i \in 1..Len(logs) : logs[i].session = id}

\* get_session_transcript line 150: commands.count()
TranscriptCount(p) ==
  /\ req[p].pc = "gt_count"
  /\ req' = [req EXCEPT
       ![p].total_commands = Cardinality(CommandsOf(req[p].session_id)),
       ![p].pc = "gt_list"]
  /\ UNCHANGED <<now, sessions, logs>>

\* the orders in which ORDER BY timestamp (CommandLog.Meta.ordering) may
\* return the rows of a session: ascending, rows of equal timestamp in any
\* order
Orderings(id) ==
  LET I == CommandsOf(id)
      n == Cardinality(I)
  IN  {f \in [1..n -> I] :
         /\ \A j, k \in 1..n : j # k => f[j] # f[k]
         /\ \A j, k \in 1..n :
              j < k => logs[f[j]].timestamp <= logs[f[k]].timestamp}

\* one item of transcript_data["commands"] (lines 155-161)
TranscriptItem(row) ==
  [ timestamp |-> row.timestamp, command |-> row.command_text,
    response |-> row.response, is_ai_response |-> row.is_ai_response,
    processing_time_ms |-> row.processing_time_ms ]

\* get_session_transcript lines 154-163: the listing and the return
TranscriptList(p) ==
  /\ req[p].pc = "gt_list"
  /\ \E f \in Orderings(req[p].session_id) :
       req' = [req EXCEPT
         ![p].commands = [j \in DOMAIN f |-> TranscriptItem(logs[f[j]])],
         ![p].svc = [NoRet EXCEPT !.status = 200],
         ![p].http = [NoRet EXCEPT !.status = 200],
         ![p].pc = "done"]
  /\ UNCHANGED <<now, sessions, logs>>

\* ------------------------------------------------------------------ ask-ai
\* user_input texts of ask-ai requests
UserInputs == { <<>>, <<" ">>, <<"h", "i">> }

\* session_id of an ask-ai request: any string, taken as it comes
AskIds == SessionIds \cup {MalformedId, NoId}

\* a key the request body does not have, and a key whose value is JSON null
Absent == <<"(absent)">>
JsonNull == <<"(null)">>

\* request.data.get(key, ""): the default for an absent key
DataGet(v) == IF v = Absent THEN <<>> ELSE v

\* what ask-ai requests may carry as user_input: the texts above, a text
\* that is itself an "ai:" command, an absent key and null
AskInputs == UserInputs \cup {Absent, JsonNull, <<"a", "i", ":", "x">>}

\* the character budget of the screen text (ask_ai line 155)
ScreenLimit == 1500

\* the i-th character of a screen text
ScreenChar(i) ==
  <<"0", "1", "2", "3", "4", "5", "6", "7", "8", "9">>[(i % 10) + 1]

\* a screen text of n characters
ScreenOfLen(n) == [i \in 1..n |-> ScreenChar(i)]

\* screen_text of ask-ai requests: absent, null, empty, shorter than, equal
\* to and longer than the budget
ScreenTexts ==
  {Absent, JsonNull} \cup
  {ScreenOfLen(n) : n \in {0, 1, ScreenLimit - 1, ScreenLimit, ScreenLimit + 1}}

\* "No screen content available"
NoScreenContent ==
  <<"N", "o", " ", "s", "c", "r", "e", "e", "n", " ", "c", "o", "n", "t",
    "e", "n", "t", " ", "a", "v", "a", "i", "l", "a", "b", "l", "e">>

\* ask_ai line 155: screen_text[:1500] if screen_text else the placeholder
LimitScreenText(screen_text) ==
  IF screen_text = JsonNull \/ screen_text = <<>>
  THEN NoScreenContent
  ELSE SubSeq(screen_text, 1, Min({Len(screen_text), ScreenLimit}))

MsgInputRequired == "User input is required"
MsgAskNotConfigured == "AI service not configured. Please contact support."
MsgNoReply == <<"I'm sorry, I couldn't generate a response. Please try asking your question again.">>
MsgRateLimit == <<"I'm receiving too many requests right now. Please wait a moment and try again.">>
MsgInvalid == <<"I'm having trouble processing your request. Please try rephrasing your question.">>
MsgAuth == <<"AI service is currently unavailable. Please contact support.">>
MsgApiError == <<"I'm experiencing technical difficulties. Please try again in a moment.">>
MsgWrong == <<"I'm sorry, something went wrong on my end. Please try again or contact support if the problem persists.">>

\* ask_ai lines 128-131: the request body is read
BeginAskAi(p, ids, inputs, screens) ==
  /\ Free(p)
  /\ \E id \in ids, u \in inputs, t \in screens :
       req' = [req EXCEPT ![p] =
         [IdleReq EXCEPT !.pc = "aa_validate", !.op = "ask_ai",
                         !.session_id = id, !.user_input = DataGet(u),
                         !.screen_text = DataGet(t)]]
  /\ UNCHANGED <<now, sessions, logs>>

\* the check of line 135 without the strip
InputIsBlank_NoStrip(user_input) == user_input = <<>>

\* ask_ai line 135: not user_input.strip()
InputIsBlank(user_input) == Strip(user_input) = <<>>

\* ask_ai lines 135-178: the input check, the API key check, the screen
\* text budget and the prompt.  None.strip() raises AttributeError, which
\* the outer handler of lines 253-258 answers.
AskAiValidate(p) ==
  /\ req[p].pc = "aa_validate"
  /\ \E openai_api_key \in BOOLEAN :   \* os.environ has the key
      req' =
       IF req[p].user_input = JsonNull
       THEN [req EXCEPT ![p].http = [status |-> 500,
                                     error |-> "Internal server error",
                                     response |-> MsgWrong],
                        ![p].pc = "done"]
       ELSE IF InputIsBlank(req[p].user_input)
       THEN [req EXCEPT ![p].http = ErrorRet(400, MsgInputRequired),
                        ![p].pc = "done"]
       ELSE IF ~openai_api_key
       THEN [req EXCEPT ![p].http = ErrorRet(500, MsgAskNotConfigured),
                        ![p].ai_failure = "not_configured",
                        ![p].pc = "done"]
       ELSE LET limited == LimitScreenText(req[p].screen_text)
            IN  [req EXCEPT ![p].limited_screen_text = limited,
                            ![p].prompt = <<limited, req[p].user_input>>,
                            ![p].pc = "aa_call"]
  /\ UNCHANGED <<now, sessions, logs>>

\* the except clause of ask_ai that handles an exception of the AI call:
\* (status, response, error); a class none of lines 210-236 names reaches
\* the outer handler of lines 253-258
AskAiFailure(e) ==
  CASE e = "RateLimitError" -> <<429, MsgRateLimit, "Rate limit exceeded">>
    [] e = "InvalidRequestError" -> <<400, MsgInvalid, "Invalid request">>
    [] e = "AuthenticationError" -> <<500, MsgAuth, "Authentication failed">>
    [] e = "APIError" -> <<503, MsgApiError, "API error">>
    [] OTHER -> <<500, MsgWrong, "Internal server error">>

\* ask_ai lines 183-243: the AI call, its failures, the empty reply, and
\* the start of the logging call when a session id was given
AskAiCall(p, errs) ==
  /\ req[p].pc = "aa_call"
  /\ \/ \E e \in errs :
          LET f == AskAiFailure(e)
          IN  req' = [req EXCEPT
                ![p].ai_calls = Append(@, req[p].user_input),
                ![p].ai_failure = e,
                ![p].http = [status |-> f[1], error |-> f[3],
                             response |-> f[2]],
                ![p].pc = "done"]
     \/ \E content \in AiReplies :
          LET ai_response == Strip(content)
          IN  req' =
                IF ai_response = <<>>
                THEN [req EXCEPT
                        ![p].ai_calls = Append(@, req[p].user_input),
                        ![p].http = [NoRet EXCEPT !.status = 200,
                                                  !.response = MsgNoReply],
                        ![p].screen_context_length =
                           Len(req[p].limited_screen_text),
                        ![p].pc = "done"]
                ELSE IF req[p].session_id # NoId
                THEN [req EXCEPT
                        ![p].ai_calls = Append(@, req[p].user_input),
                        ![p].ai_response = ai_response,
                        ![p].command = AnalysisPrefix \o req[p].user_input,
                        ![p].start_time = now,
                        ![p].pc = "pc_lookup"]
                ELSE [req EXCEPT
                        ![p].ai_calls = Append(@, req[p].user_input),
                        ![p].ai_response = ai_response,
                        ![p].pc = "aa_return"]
  /\ UNCHANGED <<now, sessions, logs>>

\* a response that takes the status of a failed logging call
AskAiResponse_LogStatus(r) ==
  IF r.svc.status \in {0, 200}
  THEN [NoRet EXCEPT !.status = 200, !.response = r.ai_response]
  ELSE r.svc

\* ask_ai lines 247-251: the response after the logging call, whose result
\* line 241 discards
AskAiResponse(r) == [NoRet EXCEPT !.status = 200, !.response = r.ai_response]

\* ask_ai lines 245-251
AskAiReturn(p) ==
  /\ req[p].pc = "aa_return"
  /\ req' = [req EXCEPT
       ![p].http = AskAiResponse(req[p]),
       ![p].screen_context_length = Len(req[p].limited_screen_text),
       ![p].pc = "done"]
  /\ UNCHANGED <<now, sessions, logs>>

\* ------------------------------------------------------------ send-command
\* CommandRequestSerializer.command: max_length
MaxCommandLen == 1000

\* a text of n characters that are not whitespace
LettersOfLen(n) == [i \in 1..n |-> "x"]

\* command of send-command requests: absent, null, empty, whitespace, a
\* greeting, and texts at and over the length limit with and without
\* whitespace around them
SendCommands ==
  { Absent, JsonNull, <<>>, <<" ", "\t">>,
    <<" ", "H", "e", "l", "l", "o", " ">>,
    LettersOfLen(MaxCommandLen),
    LettersOfLen(MaxCommandLen + 1),
    <<" ">> \o LettersOfLen(MaxCommandLen),
    <<" ">> \o LettersOfLen(MaxCommandLen + 1) }

\* session_id of send-command requests: UUID strings, a string that is not
\* a UUID, and the empty string
SendIds == SessionIds \cup {MalformedId, NoId}

\* UUIDField: the error codes of the session_id field
SessionIdErrors(id) == IF id \in SessionIds THEN {} ELSE {"invalid"}

\* the command field without the length validator
CommandErrors_NoMaxLength(raw) ==
  IF raw = Absent THEN {"required"}
  ELSE IF raw = JsonNull THEN {"null"}
  ELSE IF Strip(raw) = <<>> THEN {"blank"}
  ELSE {}

\* CharField(max_length=1000, min_length=1) and validate_command: the
\* error codes of the command field.  The field trims the text before its
\* validators run.
CommandErrors(raw) ==
  IF raw = Absent THEN {"required"}
  ELSE IF raw = JsonNull THEN {"null"}
  ELSE IF Strip(raw) = <<>> THEN {"blank"}
  ELSE IF Len(Strip(raw)) > MaxCommandLen THEN {"max_length"}
  ELSE IF Len(Strip(raw)) < 1 THEN {"min_length"}
  ELSE {}

\* serializer.validated_data["command"]: the field's trimmed text, which
\* validate_command strips again
ValidatedCommand(raw) == Strip(Strip(raw))

\* serializer.errors: the fields that have errors
SerializerErrors(id, raw) ==
  {f \in {"session_id"} : SessionIdErrors(id) # {}} \cup
  {f \in {"command"} : CommandErrors(raw) # {}}

\* SendCommandView.post line 53: the request body is read
BeginSendCommand(p, ids, cmds) ==
  /\ Free(p)
  /\ \E id \in ids, c \in cmds :
       req' = [req EXCEPT ![p] =
         [IdleReq EXCEPT !.pc = "sc_validate", !.op = "send_command",
                         !.session_id = id, !.raw_command = c]]
  /\ UNCHANGED <<now, sessions, logs>>

\* SendCommandView.post lines 53-64: validation, and the call of
\* process_command with the validated data
SendCommandValidate(p) ==
  /\ req[p].pc = "sc_validate"
  /\ LET errors == SerializerErrors(req[p].session_id, req[p].raw_command)
     IN  req' =
           IF errors # {}
           THEN [req EXCEPT
                   ![p].http = ErrorRet(400, "Invalid request data"),
                   ![p].details = errors,
                   ![p].pc = "done"]
           ELSE [req EXCEPT
                   ![p].command = ValidatedCommand(req[p].raw_command),
                   ![p].start_time = now,
                   ![p].pc = "pc_lookup"]
  /\ UNCHANGED <<now, sessions, logs>>

\* SendCommandView.post line 66: the result of process_command is returned
SendCommandReturn(p) ==
  /\ req[p].pc = "sc_return"
  /\ req' = [req EXCEPT ![p].http = req[p].svc, ![p].pc = "done"]
  /\ UNCHANGED <<now, sessions, logs>>

\* ---------------------------------------------------------- specifications
\* exceptions of the AI boundary in the store specifications
StoreErrors == {"RateLimitError"}

EndSessionSteps(p) ==
  \/ BeginEndSession(p)
  \/ EndSessionLookup(p)
  \/ EndSessionWrite(p)

DispatchSteps(p, cmds, errs, cap) ==
  \/ BeginProcessCommand(p, cmds)
  \/ ProcessLookup(p)
  \/ ProcessRespond(p, errs)
  \/ ProcessLog(p, cap)

TranscriptSteps(p) ==
  \/ BeginGetTranscript(p)
  \/ TranscriptLookup(p)
  \/ TranscriptCount(p)
  \/ TranscriptList(p)

AskAiSteps(p, ids, inputs, screens, errs) ==
  \/ BeginAskAi(p, ids, inputs, screens)
  \/ AskAiValidate(p)
  \/ AskAiCall(p, errs)
  \/ AskAiReturn(p)

\* every endpoint, requests served one after another at one reading of the
\* clock (the clock advances in SpecText, SpecLog and SpecConc)
Next ==
  \/ CreateSession(1)
  \/ EndSessionSteps(1)
  \/ DispatchSteps(1, Commands, StoreErrors, MaxLogs)
  \/ TranscriptSteps(1)
  \/ AskAiSteps(1, AskIds, UserInputs, { <<>> }, StoreErrors)
Spec == Init /\ [][Next]_vars

\* the logging call of ask-ai: process_command without a client of its own
AskLogSteps(p, errs, cap) ==
  \/ ProcessLookup(p)
  \/ ProcessRespond(p, errs)
  \/ ProcessLog(p, cap)

\* exceptions of the AI boundary in the ask-ai specification: those of
\* AiErrors and openai.error.Timeout
AskErrors == AiErrors \cup {"Timeout"}

\* screen_text of the ask-ai specification: absent and present
AskScreens == {Absent, ScreenOfLen(1)}

\* the ask-ai endpoint on every user_input, session id and AI failure, with
\* sessions that are started and ended
NextAsk ==
  \/ CreateSession(1)
  \/ EndSessionSteps(1)
  \/ AskAiSteps(1, AskIds, AskInputs, AskScreens, AskErrors)
  \/ AskLogSteps(1, {}, MaxLogs)
SpecAsk == Init /\ [][NextAsk]_vars

\* the ask-ai endpoint on every screen text, with sessions that stay active
NextScreen ==
  \/ CreateSession(1)
  \/ AskAiSteps(1, AskIds, UserInputs, ScreenTexts, StoreErrors)
  \/ AskLogSteps(1, {}, MaxLogs)
SpecScreen == Init /\ [][NextScreen]_vars

SendCommandSteps(p, ids, cmds) ==
  \/ BeginSendCommand(p, ids, cmds)
  \/ SendCommandValidate(p)
  \/ SendCommandReturn(p)

\* the send-command endpoint on every request body
NextSend ==
  \/ CreateSession(1)
  \/ SendCommandSteps(1, SendIds, SendCommands)
  \/ AskLogSteps(1, {}, MaxLogs)
SpecSend == Init /\ [][NextSend]_vars

\* the session lifecycle while the clock advances
NextSession ==
  \/ Tick
  \/ CreateSession(1)
  \/ EndSessionSteps(1)
SpecSession == Init /\ [][NextSession]_vars

\* pieces of command text: whitespace, the AI prefix in two spellings, the
\* three words of the rule table, and a letter that matches nothing
Fragments ==
  { <<" ">>, <<"a", "i", ":">>, <<"A", "i", ":">>,
    <<"h", "e", "l", "l", "o">>, <<"T", "i", "m", "e">>,
    <<"h", "e", "l", "p">>, <<"x">> }

\* every text made of at most n pieces
RECURSIVE Concats(_)
Concats(n) ==
  IF n = 0 THEN { <<>> }
  ELSE LET shorter == Concats(n - 1)
       IN  shorter \cup {s \o f : s \in shorter, f \in Fragments}

TextCommands == Concats(MaxFrags)

\* the command a client sends once it has started a session: any text
TextInputs ==
  IF logs = <<>> /\ req[1].op = "create_session" THEN TextCommands ELSE {}

\* the dispatcher on every command text and every AI failure
NextText ==
  \/ Tick
  \/ CreateSession(1)
  \/ DispatchSteps(1, TextInputs, AiErrors, 1)
SpecText == Init /\ [][NextText]_vars

\* command texts of the log specification
LogCommands == { <<>>, <<" ", "H", "e", "l", "l", "o", " ">> }

\* dispatches and transcripts of active sessions over a log of several
\* entries, while the clock advances
NextLog ==
  \/ Tick
  \/ CreateSession(1)
  \/ DispatchSteps(1, LogCommands, {}, MaxLogs + 1)
  \/ TranscriptSteps(1)
SpecLog == Init /\ [][NextLog]_vars

\* user_input of the append specification
AppendInputs == { <<"h", "i">> }

\* every endpoint over a log of several entries, requests served one after
\* another at one reading of the clock
NextAppend ==
  \/ CreateSession(1)
  \/ EndSessionSteps(1)
  \/ DispatchSteps(1, LogCommands, {}, MaxLogs + 1)
  \/ TranscriptSteps(1)
  \/ AskAiSteps(1, AskIds, AppendInputs, { <<>> }, {})
SpecAppend == Init /\ [][NextAppend]_vars

\* command texts of the concurrent specification
ConcCommands == { <<" ", "H", "e", "l", "l", "o", " ">> }

\* session, dispatch and transcript requests served by several workers
\* whose steps interleave
NextConc ==
  \/ Tick
  \/ \E p \in Workers :
       \/ CreateSession(p)
       \/ EndSessionSteps(p)
       \/ DispatchSteps(p, ConcCommands, {}, MaxLogs)
       \/ TranscriptSteps(p)
SpecConc == Init /\ [][NextConc]_vars

\* ------------------------------------------------------------------ claims
EndSessionCalls == {p \in Workers : req[p].op = "end_session"}

\* C1: in every reachable state every session of the store has
\* is_active = false exactly when its ended_at is not null.
C1_ActiveIffNotEnded ==
  \A id \in DOMAIN sessions :
    (sessions[id].is_active = FALSE) <=> (sessions[id].ended_at # Null)

\* C1 witness: an EndSession call has returned and its session is ended,
\* while another session of the store is still active.
C1_Witness ==
  \E p \in EndSessionCalls :
    /\ req[p].pc = "done" /\ req[p].ended = "True"
    /\ req[p].session_id \in DOMAIN sessions
    /\ ~sessions[req[p].session_id].is_active
    /\ sessions[req[p].session_id].ended_at # Null
    /\ \E other \in DOMAIN sessions : sessions[other].is_active

\* C2: the step in which EndSession returns: it returns true exactly when
\* the session is in the store and active, and then the row becomes ended
\* at the current time; otherwise it returns false and the store (sessions
\* and log) is unchanged, so a second EndSession of a session leaves
\* is_active and ended_at as the first call set them.  The endpoint
\* answers 200 for true and 404 for false.
C2_EndSessionResult ==
  [][ \A p \in Workers :
        (req[p].pc = "es_write" /\ req'[p].pc = "done") =>
          LET id == req[p].session_id
              live == id \in DOMAIN sessions /\ sessions[id].is_active
          IN  /\ (req'[p].ended = "True") <=> live
              /\ (req'[p].ended = "False") <=> ~live
              /\ live => /\ sessions'[id].is_active = FALSE
                         /\ sessions'[id].ended_at = now
                         /\ \A o \in DOMAIN sessions \ {id} :
                              sessions'[o] = sessions[o]
                         /\ req'[p].http.status = 200
              /\ ~live => /\ sessions' = sessions
                          /\ req'[p].http.status = 404
              /\ logs' = logs
    ]_vars

\* C2 witness: a second EndSession of an ended session has returned false.
C2_Witness ==
  \E p \in EndSessionCalls :
    /\ req[p].pc = "done" /\ req[p].ended = "False"
    /\ req[p].http.status = 404
    /\ req[p].session_id \in DOMAIN sessions
    /\ sessions[req[p].session_id].ended_at # Null
    /\ sessions[req[p].session_id].ended_at < now

\* C3: under any interleaving of EndSession calls, a session's is_active
\* never returns to true, its ended_at, once written, is never written
\* with a different timestamp, and no two EndSession calls of the same
\* session both return true.
C3_EndedExactlyOnce ==
  [][ /\ \A id \in DOMAIN sessions :
           /\ ~sessions[id].is_active => ~sessions'[id].is_active
           /\ sessions[id].ended_at # Null =>
                sessions'[id].ended_at = sessions[id].ended_at
      /\ \A p, q \in Workers :
           ( /\ p # q
             /\ req'[p].op = "end_session" /\ req'[q].op = "end_session"
             /\ req'[p].session_id = req'[q].session_id )
           => ~(req'[p].ended = "True" /\ req'[q].ended = "True")
    ]_vars

\* a worker whose request has called CommandService.process_command
InProcess(p) == req[p].op \in {"process_command", "ask_ai"}

\* process_command of worker p has returned
ProcessReturned(p) == InProcess(p) /\ req[p].svc.status # 0

\* process_command of worker p returns in the step
ProcessReturns(p) ==
  /\ req[p].pc \in {"pc_lookup", "pc_respond", "pc_log"}
  /\ req'[p].pc \in {"done", "aa_return"}

WhitespaceOnly(s) == \A i \in 1..Len(s) : s[i] \in Whitespace

\* t is s without its leading and trailing whitespace, and is not empty
IsTrimOf(t, s) ==
  \E i, j \in 1..Len(s) :
    /\ i <= j /\ t = SubSeq(s, i, j)
    /\ s[i] \notin Whitespace /\ s[j] \notin Whitespace
    /\ \A k \in 1..Len(s) : (k < i \/ k > j) => s[k] \in Whitespace

\* C4: a ProcessCommand whose session id is not in the store has returned
\* status 404, whatever the command text, and no log entry belongs to a
\* session that is not in the store.
C4_UnknownSessionIs404 ==
  /\ \A p \in Workers :
       (ProcessReturned(p) /\ req[p].session_id \notin DOMAIN sessions)
         => req[p].svc.status = 404
  /\ \A i \in 1..Len(logs) : logs[i].session \in DOMAIN sessions

\* C5: the step of ProcessCommand that looks up a session which is in the
\* store and ended returns status 400 'Session has ended' for every command
\* text, invokes no responder and no AI call, and leaves the log unchanged.
C5_EndedSessionIs400 ==
  [][ \A p \in Workers :
        ( /\ req[p].pc = "pc_lookup" /\ req'[p].pc # "pc_lookup"
          /\ req[p].session_id \in DOMAIN sessions
          /\ ~sessions[req[p].session_id].is_active )
        => /\ ProcessReturns(p)
           /\ req'[p].svc = [status |-> 400, error |-> "Session has ended",
                             response |-> <<>>]
           /\ req'[p].responder = "none"
           /\ req'[p].ai_calls = req[p].ai_calls
           /\ req'[p].ai_outcome = "none"
           /\ logs' = logs
    ]_vars

\* C5 witness: a command that starts with 'ai:' was refused on an ended
\* session.
C5_Witness ==
  \E p \in Workers :
    /\ req[p].op = "process_command" /\ req[p].pc = "done"
    /\ req[p].svc.status = 400 /\ req[p].svc.error = "Session has ended"
    /\ Len(req[p].command) > 3
    /\ SubSeq(req[p].command, 1, 3) = <<"a", "i", ":">>
    /\ ~sessions[req[p].session_id].is_active
    /\ req[p].ai_calls = <<>>

\* C6: the step of ProcessCommand that looks up an active session with a
\* command that is empty or all whitespace returns status 400, invokes no
\* responder and no AI call, and leaves the log unchanged.
C6_EmptyCommandIs400 ==
  [][ \A p \in Workers :
        ( /\ req[p].pc = "pc_lookup" /\ req'[p].pc # "pc_lookup"
          /\ req[p].session_id \in DOMAIN sessions
          /\ sessions[req[p].session_id].is_active
          /\ WhitespaceOnly(req[p].command) )
        => /\ ProcessReturns(p)
           /\ req'[p].svc = [status |-> 400,
                             error |-> "Command cannot be empty",
                             response |-> <<>>]
           /\ req'[p].responder = "none"
           /\ req'[p].ai_calls = req[p].ai_calls
           /\ req'[p].ai_outcome = "none"
           /\ logs' = logs
    ]_vars

\* C6 witness: a whitespace-only command was refused on an active session.
C6_Witness ==
  \E p \in Workers :
    /\ req[p].op = "process_command" /\ req[p].pc = "done"
    /\ req[p].svc.status = 400
    /\ req[p].svc.error = "Command cannot be empty"
    /\ req[p].command # <<>> /\ WhitespaceOnly(req[p].command)
    /\ sessions[req[p].session_id].is_active
    /\ logs = <<>>

\* C7: a step in which ProcessCommand returns status 200 appends exactly
\* one entry to the log, of the session of the call, whose command_text is
\* the command without leading and trailing whitespace (not empty) and
\* whose response is the response returned; a step in which it returns an
\* error status, and every other step, leaves the log as it was.
C7_OneEntryPerSuccess ==
  [][ /\ \A p \in Workers :
           ProcessReturns(p) =>
             IF req'[p].svc.status = 200
             THEN /\ Len(logs') = Len(logs) + 1
                  /\ SubSeq(logs', 1, Len(logs)) = logs
                  /\ LET e == logs'[Len(logs')]
                     IN  /\ e.session = req[p].session_id
                         /\ IsTrimOf(e.command_text, req[p].command)
                         /\ e.response = req'[p].svc.response
             ELSE logs' = logs
      /\ logs' # logs =>
           \E p \in Workers : ProcessReturns(p) /\ req'[p].svc.status = 200
    ]_vars

\* C7 witness: a command with surrounding whitespace was logged trimmed for
\* its session while another session is in the store.
C7_Witness ==
  \E p \in Workers :
    /\ req[p].op = "process_command" /\ req[p].pc = "done"
    /\ req[p].svc.status = 200
    /\ logs # <<>>
    /\ logs[Len(logs)].session = req[p].session_id
    /\ logs[Len(logs)].command_text # req[p].command
    /\ logs[Len(logs)].response = req[p].svc.response
    /\ DOMAIN sessions # {req[p].session_id}

\* C8: ProcessCommand invokes the AI responder exactly for the commands
\* whose text without leading and trailing whitespace begins, in any case,
\* with 'ai:', with the trimmed text after the prefix as prompt; for every
\* other command it invokes the rule-based responder and makes no AI call.
C8_ClassifiesTrimmedCommand ==
  \A p \in Workers :
    (InProcess(p) /\ req[p].responder # "none") =>
      LET trimmed == Strip(req[p].command)
          own == IF req[p].op = "ask_ai" THEN Tail(req[p].ai_calls)
                 ELSE req[p].ai_calls
      IN  IF StartsWith(Lower(trimmed), AiPrefix)
          THEN /\ req[p].responder = "ai"
               /\ \A i \in 1..Len(own) :
                    own[i] = Strip(DropFirst(trimmed, 3))
          ELSE req[p].responder = "dummy" /\ own = <<>>

\* C9: the rule-based responder answers every command, by the first rule
\* that matches the lower-cased command: the greeting iff it contains
\* 'hello'; the time message iff it contains 'time' and not 'hello'; the
\* help text iff it contains 'help' and neither of the two; the fallback
\* iff it contains none; and the answer is never marked as an AI response.
C9_RuleTableFirstMatch ==
  \A p \in Workers :
    req[p].responder = "dummy" =>
      LET c == Lower(req[p].command)
          hello == Contains(c, WordHello)
          time == Contains(c, WordTime)
          help == Contains(c, WordHelp)
          r == req[p].response
          isTime == \E t \in req[p].start_time..now : r = MsgTime(t)
      IN  /\ req[p].is_ai = FALSE
          /\ r # <<>>
          /\ (r = MsgGreeting) <=> hello
          /\ isTime <=> (~hello /\ time)
          /\ (r = MsgHelp) <=> (~hello /\ ~time /\ help)
          /\ (r = MsgUnknown) <=> (~hello /\ ~time /\ ~help)

\* C9 witness: a command that contains 'help' and 'time' in mixed case got
\* the time message and was logged as not AI.
C9_Witness ==
  \E p \in Workers :
    /\ req[p].responder = "dummy" /\ req[p].svc.status = 200
    /\ Contains(req[p].command, WordHelp)
    /\ Contains(req[p].command, <<"T", "i", "m", "e">>)
    /\ ~Contains(Lower(req[p].command), WordHello)
    /\ req[p].response[1] = "The current time is "
    /\ logs # <<>> /\ ~logs[1].is_ai_response

\* C10: when the AI call of an 'ai:' command fails (key not set, or any
\* exception), the responder step yields a non-empty fallback text not
\* marked as AI and the dispatch goes on to the log write; the log write
\* then appends one entry with is_ai_response = false and the call returns
\* status 200 with that text.  The only error status such a dispatch can
\* return is the 500 of a log write the store rejected, with no entry.
C10_AiFailureIsAbsorbed ==
  [][ \A p \in Workers :
        LET failed(r) == r.ai_outcome \in {"not_configured", "error"}
        IN  /\ ( req[p].pc = "pc_respond" /\ req'[p].pc # "pc_respond"
                 /\ failed(req'[p]) )
               => /\ req'[p].pc = "pc_log"
                  /\ req'[p].response # <<>>
                  /\ req'[p].is_ai = FALSE
                  /\ req'[p].svc.status = 0
            /\ ( req[p].pc = "pc_log" /\ req'[p].pc # "pc_log"
                 /\ failed(req[p]) )
               => \/ /\ req'[p].svc.status = 200
                     /\ req'[p].svc.response = req[p].response
                     /\ req'[p].svc.response # <<>>
                     /\ Len(logs') = Len(logs) + 1
                     /\ SubSeq(logs', 1, Len(logs)) = logs
                     /\ logs'[Len(logs')].is_ai_response = FALSE
                     /\ logs'[Len(logs')].response = req[p].response
                  \/ /\ req'[p].store_error
                     /\ req'[p].svc.status = 500
                     /\ logs' = logs
    ]_vars

\* C10 witness: an 'ai:' command whose AI call raised a connection error
\* returned 200 and was logged as not AI.
C10_Witness ==
  \E p \in Workers :
    /\ req[p].op = "process_command" /\ req[p].pc = "done"
    /\ req[p].ai_outcome = "error"
    /\ req[p].response = MsgAiError("APIConnectionError")
    /\ req[p].svc.status = 200
    /\ logs # <<>> /\ ~logs[Len(logs)].is_ai_response

\* the log entries of a session, in insertion order
SessionLog(id) == SelectSeq(logs, LAMBDA row : row.session = id)

\* C11: a transcript that has been returned for a session of the store
\* lists exactly the entries of that session (none of another session) in
\* the order in which sequential dispatches inserted them, which is also
\* ascending timestamp order, entries of equal timestamp included; for a
\* session that is not in the store the answer is 404.
C11_TranscriptInInsertionOrder ==
  \A p \in Workers :
    (req[p].op = "get_transcript" /\ req[p].pc = "done") =>
      LET id == req[p].session_id
          entries == SessionLog(id)
      IN  IF id \in DOMAIN sessions
          THEN /\ req[p].http.status = 200
               /\ req[p].total_commands = Len(entries)
               /\ req[p].commands =
                    [j \in 1..Len(entries) |-> TranscriptItem(entries[j])]
          ELSE req[p].http.status = 404

\* C12: every ask-ai request that returned 200, whatever its screen text
\* (absent, empty, shorter than, equal to or longer than the budget), put
\* the first min(len(screen_text), 1500) characters of the screen text in
\* the prompt and reports screen_context_length = min(len(screen_text),
\* 1500).
C12_ScreenTextTruncated ==
  \A p \in Workers :
    ( /\ req[p].op = "ask_ai" /\ req[p].pc = "done"
      /\ req[p].http.status = 200
      /\ req[p].screen_text # JsonNull ) =>
      LET n == Min({Len(req[p].screen_text), ScreenLimit})
      IN  /\ req[p].prompt[1] = SubSeq(req[p].screen_text, 1, n)
          /\ req[p].screen_context_length = n

\* C13: an ask-ai request whose user_input is missing, empty or only
\* whitespace takes no step that calls the AI boundary or changes the log,
\* and returns 400 "User input is required", whatever its screen text, its
\* session id and the API key configuration.
C13_BlankInputIs400 ==
  [][ \A p \in Workers :
        ( /\ req'[p].op = "ask_ai"
          /\ Strip(req'[p].user_input) = <<>> ) =>
          /\ logs' = logs
          /\ req'[p].ai_calls = <<>>
          /\ req'[p].pc \in {"aa_validate", "done"}
          /\ req'[p].pc = "done" =>
                /\ req'[p].http.status = 400
                /\ req'[p].http.error = MsgInputRequired
    ]_vars

\* C13 witness: a whitespace-only user_input sent with a screen text and
\* the id of an active session was answered 400, the log still empty.
C13_Witness ==
  \E p \in Workers :
    /\ req[p].op = "ask_ai" /\ req[p].pc = "done"
    /\ req[p].user_input = <<" ">>
    /\ req[p].screen_text # <<>>
    /\ req[p].session_id \in DOMAIN sessions
    /\ sessions[req[p].session_id].is_active
    /\ req[p].http.status = 400
    /\ req[p].ai_calls = <<>> /\ logs = <<>>

\* AI service errors other than rate limiting, an invalid request and an
\* authentication failure: an API error, an unreachable service, a timeout
OtherServiceErrors == {"APIError", "APIConnectionError", "Timeout"}

\* the canned fallback texts of ask-ai
CannedTexts ==
  {MsgRateLimit, MsgInvalid, MsgAuth, MsgApiError, MsgWrong, MsgNoReply}

\* C14: an ask-ai request with a non-blank user_input whose AI boundary
\* failed has returned the status of the failure kind: not configured 500,
\* rate limited 429, invalid request 400, authentication failure 500, any
\* other AI service error (unreachable and timed out included) 503; its
\* body is a canned text and never the exception text.
C14_FailureKindStatus ==
  \A p \in Workers :
    ( /\ req[p].op = "ask_ai" /\ req[p].pc = "done"
      /\ req[p].ai_failure \in
           {"not_configured", "RateLimitError", "InvalidRequestError",
            "AuthenticationError"} \cup OtherServiceErrors ) =>
      LET e == req[p].ai_failure
      IN  /\ req[p].http.status =
               CASE e = "not_configured" -> 500
                 [] e = "RateLimitError" -> 429
                 [] e = "InvalidRequestError" -> 400
                 [] e = "AuthenticationError" -> 500
                 [] OTHER -> 503
          /\ IF e = "not_configured"
             THEN req[p].http.error = MsgAskNotConfigured
             ELSE /\ req[p].http.response \in CannedTexts
                  /\ req[p].http.error # e

\* C15: an ask-ai request whose AI boundary gave a reply has returned 200
\* with that reply and the context length, whether the logging call was
\* not made (no session id), succeeded, was refused (malformed id, unknown
\* session, ended session) or failed in the store.
C15_LoggingNeverFailsAskAi ==
  \A p \in Workers :
    ( /\ req[p].op = "ask_ai" /\ req[p].pc = "done"
      /\ req[p].ai_response # <<>> ) =>
      /\ req[p].http =
           [status |-> 200, error |-> "", response |-> req[p].ai_response]
      /\ req[p].screen_context_length = Len(req[p].limited_screen_text)
      /\ req[p].svc.status \in {0, 200, 400, 404, 500}
      /\ req[p].svc.status = 0 <=> req[p].session_id = NoId

\* C15 witness: the store rejected the log write of an ask-ai request that
\* named an active session, and the request was answered 200 with the
\* reply.
C15_Witness ==
  \E p \in Workers :
    /\ req[p].op = "ask_ai" /\ req[p].pc = "done"
    /\ req[p].session_id \in DOMAIN sessions
    /\ req[p].store_error /\ req[p].svc.status = 500
    /\ req[p].ai_response = <<"o", "k">>
    /\ req[p].http.status = 200
    /\ req[p].http.response = <<"o", "k">>

\* a send-command body's command that is missing, empty or only whitespace
CommandBlank(raw) == raw = Absent \/ Strip(raw) = <<>>

\* the step of worker p leaves the request rejected by validation: the
\* dispatcher not invoked, the log as it was, and once answered, 400 with
\* the details of the fields
SendRejected(p) ==
  /\ logs' = logs
  /\ req'[p].pc \in {"sc_validate", "done"}
  /\ req'[p].responder = "none" /\ req'[p].svc.status = 0
  /\ req'[p].pc = "done" =>
        /\ req'[p].http.status = 400
        /\ req'[p].session_id \notin SessionIds =>
              "session_id" \in req'[p].details
        /\ req'[p].session_id \in SessionIds =>
              req'[p].details = {"command"}

\* the command process_command was called with is the trimmed command
SendHandsTrimmed(p) ==
  req'[p].pc \in {"pc_lookup", "pc_respond", "pc_log", "sc_return"} =>
    req'[p].command = Strip(req'[p].raw_command)

\* C16 as stated: a send-command request whose session_id is not a UUID or
\* whose command is missing, empty, only whitespace or longer than 1000
\* characters is rejected with 400 and per-field details, without the
\* dispatcher being invoked or the log changing; a request that passes
\* hands the trimmed command to the dispatcher.
C16_RejectsInvalidRequest ==
  [][ \A p \in Workers :
        req'[p].op = "send_command" =>
          /\ \/ SendRejected(p)
             \/ ~( \/ req'[p].session_id \notin SessionIds
                   \/ CommandBlank(req'[p].raw_command)
                   \/ Len(req'[p].raw_command) > MaxCommandLen )
          /\ SendHandsTrimmed(p)
    ]_vars

\* C16 amended: the length limit applies to the trimmed command.
C16_RejectsInvalidTrimmed ==
  [][ \A p \in Workers :
        req'[p].op = "send_command" =>
          /\ \/ SendRejected(p)
             \/ ~( \/ req'[p].session_id \notin SessionIds
                   \/ CommandBlank(req'[p].raw_command)
                   \/ Len(Strip(req'[p].raw_command)) > MaxCommandLen )
          /\ SendHandsTrimmed(p)
    ]_vars

\* C16 witness: a command of 1001 letters sent to an active session was
\* rejected with 400 and a detail for the command field, after a command
\* of 1000 letters behind a space had been accepted and logged trimmed.
C16_Witness ==
  \E p \in Workers :
    /\ req[p].op = "send_command" /\ req[p].pc = "done"
    /\ req[p].raw_command = LettersOfLen(MaxCommandLen + 1)
    /\ req[p].session_id \in DOMAIN sessions
    /\ req[p].http.status = 400 /\ req[p].details = {"command"}
    /\ Len(logs) = 1
    /\ logs[1].command_text = LettersOfLen(MaxCommandLen)

\* C17: the step in which CreateSession returns adds one session whose
\* identifier no session of the store had, active, not ended, started at
\* the current time; every other session and the whole log are as before,
\* and no log entry belongs to the new session.
C17_CreateSessionIsFresh ==
  [][ \A p \in Workers :
        ( /\ req'[p] # req[p]
          /\ req'[p].op = "create_session" /\ req'[p].pc = "done" ) =>
          LET id == req'[p].session_id
          IN  /\ id \notin DOMAIN sessions
              /\ DOMAIN sessions' = DOMAIN sessions \cup {id}
              /\ sessions'[id] = [started_at |-> now, ended_at |-> Null,
                                  is_active |-> TRUE]
              /\ \A o \in DOMAIN sessions : sessions'[o] = sessions[o]
              /\ logs' = logs
              /\ \A i \in 1..Len(logs') : logs'[i].session # id
              /\ req'[p].http.status = 201
    ]_vars

\* C17 witness: a session was created in a store that holds an ended
\* session and a log entry; the new session is active and has no entry.
C17_Witness ==
  \E p \in Workers :
    /\ req[p].op = "create_session" /\ req[p].pc = "done"
    /\ req[p].session_id \in DOMAIN sessions
    /\ sessions[req[p].session_id].is_active
    /\ CommandsOf(req[p].session_id) = {}
    /\ logs # <<>>
    /\ \E o \in DOMAIN sessions : ~sessions[o].is_active

\* sequence s is a prefix of sequence t
IsPrefix(s, t) == Len(s) <= Len(t) /\ SubSeq(t, 1, Len(s)) = s

\* C18: no step of any operation modifies, reorders or removes a log
\* entry: the log before the step is a prefix of the log after it, and so
\* is every session's sequence of entries.
C18_LogIsAppendOnly ==
  [][ /\ IsPrefix(logs, logs')
      /\ \A id \in SessionIds : IsPrefix(SessionLog(id), SessionLog(id)')
    ]_vars

\* C18 witness: a session has two entries, the second appended after the
\* first, another session has been ended since, and an ask-ai request has
\* returned.
C18_Witness ==
  /\ Len(logs) >= 2
  /\ logs[1].session = logs[2].session
  /\ \E o \in DOMAIN sessions : ~sessions[o].is_active
  /\ \E p \in Workers :
       req[p].op = "ask_ai" /\ req[p].pc = "done" /\ req[p].http.status = 200

\* C20: under any interleaving of ProcessCommand and EndSession, a log
\* entry is appended only while its session is active, and no entry of an
\* ended session has a timestamp later than the session's ended_at.
C20_NoEntryAfterEnd ==
  [][ /\ Len(logs') > Len(logs) =>
           sessions[logs'[Len(logs')].session].is_active
      /\ \A i \in 1..Len(logs') :
           LET session == sessions'[logs'[i].session]
           IN  session.ended_at # Null =>
                 logs'[i].timestamp <= session.ended_at
    ]_vars

\* C21: every log entry has a non-empty response, and a ProcessCommand
\* that returned 200 returned a non-empty response, also for an 'ai:'
\* command whose AI reply is empty or only whitespace.
C21_ResponseNonEmpty ==
  /\ \A i \in 1..Len(logs) : logs[i].response # <<>>
  /\ \A p \in Workers :
       ( /\ req[p].op = "process_command" /\ req[p].pc = "done"
         /\ req[p].svc.status = 200 ) => req[p].svc.response # <<>>

\* C22: the step in which ProcessCommand or GetTranscript returns: after
\* an unexpected failure (a rejected log write, a lookup that raises) it
\* returns 500 with the message "Internal server error" and nothing else,
\* and the log is as it was before the step; on no path does the response
\* text ProcessCommand returns contain the text of an exception.
C22_FailureIsGeneric500 ==
  [][ \A p \in Workers :
        ( \/ ProcessReturns(p)
          \/ /\ req'[p].op = "get_transcript"
             /\ req[p].pc # "done" /\ req'[p].pc = "done" ) =>
          /\ ( \/ req'[p].store_error
               \/ (InProcess(p) /\ LookupRaises(req'[p].session_id)) )
             => req'[p].svc.status = 500
          /\ req'[p].svc.status = 500 =>
               /\ req'[p].svc = ErrorRet(500, "Internal server error")
               /\ logs' = logs
          /\ \A i \in 1..Len(req'[p].svc.response) :
               req'[p].svc.response[i] \notin AskErrors
    ]_vars

\* C23: in every transcript that has been returned, total_commands is the
\* number of items of its commands list, also when a ProcessCommand of the
\* same session appends an entry between the count and the listing.
C23_CountMatchesList ==
  \A p \in Workers :
    ( /\ req[p].op = "get_transcript" /\ req[p].pc = "done"
      /\ req[p].http.status = 200 ) =>
      req[p].total_commands = Len(req[p].commands)

\* C24: the step in which a dispatch writes its log entry: the entry has
\* is_ai_response = true only if its command_text begins, in any letter
\* case, with "ai:" and the AI boundary gave a reply in that dispatch; an
\* entry of the rule-based responder or of an AI failure has
\* is_ai_response = false; the entry's response is the text returned to
\* the caller.  No entry of the log is flagged without the prefix.
C24_AiFlagMeansAiReply ==
  [][ /\ \A p \in Workers :
           ( /\ req[p].pc = "pc_log" /\ req'[p].pc # "pc_log"
             /\ Len(logs') > Len(logs) ) =>
             LET row == logs'[Len(logs')]
             IN  /\ row.is_ai_response =>
                      /\ StartsWith(Lower(row.command_text), AiPrefix)
                      /\ req[p].responder = "ai"
                      /\ req[p].ai_outcome = "reply"
                 /\ ( \/ req[p].responder = "dummy"
                      \/ req[p].ai_outcome \in {"error", "not_configured"} )
                    => ~row.is_ai_response
                 /\ req'[p].svc.status = 200
                 /\ row.response = req'[p].svc.response
      /\ \A i \in 1..Len(logs') :
           logs'[i].is_ai_response =>
             StartsWith(Lower(logs'[i].command_text), AiPrefix)
    ]_vars

\* C24 witness: a command with the prefix in upper and lower case got a
\* reply from the AI boundary and its entry is flagged, with the reply as
\* response.
C24_Witness ==
  \E p \in Workers :
    /\ req[p].op = "process_command" /\ req[p].pc = "done"
    /\ req[p].svc.status = 200
    /\ Len(logs) = 1
    /\ logs[1].is_ai_response
    /\ logs[1].command_text = <<"A", "i", ":", "x">>
    /\ logs[1].response = <<"o", "k">>
    /\ req[p].svc.response = <<"o", "k">>

\* the session an ask-ai request names exists and is active
AskSessionActive(p) ==
  /\ req[p].session_id \in DOMAIN sessions
  /\ sessions[req[p].session_id].is_active

\* C25: a successful ask-ai request invokes the AI boundary exactly once.
\* The logging dispatch of "AI Analysis: <user_input>" goes to the
\* rule-based responder, never to the AI responder, whatever the input; it
\* appends one entry when the session exists and is active (none when the
\* store rejects the write) and none otherwise, and the entry has
\* is_ai_response false.  A request whose AI call fails or returns an empty
\* reply ends without a logging dispatch, so it appends nothing.
C25_AskAiCallsBoundaryOnce ==
  [][ \A p \in Workers :
        (req[p].op = "ask_ai" /\ req[p].pc \notin {"idle", "done"}) =>
          /\ req[p].pc # "pc_log" => logs' = logs
          /\ req[p].pc = "aa_validate" => req'[p].ai_calls = <<>>
          /\ req[p].pc = "aa_call" =>
                /\ req'[p].ai_calls = <<req[p].user_input>>
                /\ ( \/ req'[p].ai_failure # "none"
                     \/ req'[p].ai_response = <<>> ) => req'[p].pc = "done"
                /\ req'[p].pc = "pc_lookup" =>
                      req'[p].command = AnalysisPrefix \o req[p].user_input
          /\ req[p].pc \in {"pc_lookup", "pc_respond", "pc_log", "aa_return"} =>
                /\ req'[p].ai_calls = req[p].ai_calls
                /\ Len(req[p].ai_calls) = 1
                /\ req[p].ai_failure = "none" /\ req[p].ai_response # <<>>
          /\ req[p].pc = "pc_lookup" =>
                IF AskSessionActive(p)
                THEN req'[p].pc = "pc_respond"
                ELSE req'[p].pc = "aa_return"
          /\ req[p].pc = "pc_respond" =>
                /\ req'[p].responder = "dummy"
                /\ ~req'[p].is_ai
                /\ req'[p].pc = "pc_log"
          /\ req[p].pc = "pc_log" =>
                /\ req'[p].pc = "aa_return"
                /\ AskSessionActive(p)
                /\ IF req'[p].store_error
                   THEN logs' = logs
                   ELSE /\ Len(logs') = Len(logs) + 1
                        /\ SubSeq(logs', 1, Len(logs)) = logs
                        /\ LET row == logs'[Len(logs')]
                           IN  /\ ~row.is_ai_response
                               /\ row.session = req[p].session_id
                               /\ row.command_text =
                                    Strip(AnalysisPrefix \o req[p].user_input)
          /\ req[p].pc = "aa_return" =>
                /\ req'[p].pc = "done"
                /\ req'[p].http.status = 200
                /\ req'[p].http.response = req[p].ai_response
                /\ req'[p].responder \in {"none", "dummy"}
    ]_vars

\* C25 witness: an ask-ai request whose input is itself an "ai:" command
\* was answered 200 after one AI call, and its logging dispatch, answered
\* by the rule-based responder, left the one entry of the log.
C25_Witness ==
  \E p \in Workers :
    /\ req[p].op = "ask_ai" /\ req[p].pc = "done"
    /\ req[p].user_input = <<"a", "i", ":", "x">>
    /\ req[p].http.status = 200
    /\ req[p].http.response = <<"o", "k">>
    /\ req[p].ai_calls = << <<"a", "i", ":", "x">> >>
    /\ req[p].responder = "dummy"
    /\ req[p].svc.status = 200
    /\ Len(logs) = 1
    /\ ~logs[1].is_ai_response
    /\ logs[1].command_text = AnalysisPrefix \o <<"a", "i", ":", "x">>
    /\ logs[1].response = MsgUnknown

====
